---- MODULE Spec2Model ----
(***************************************************************************)
(* A model of agv_fault_reporter/app.py: the free-text report parser       *)
(* (parse_fault_text), the request handlers (index, parse_fault,           *)
(* edit_fault, statistics, download) and the faults table they share.      *)
(*                                                                         *)
(* Text is modelled as a sequence of tokens.  A token stands for one       *)
(* character or for a run of characters of one class that the code never   *)
(* splits.  The Chinese literals of the source are written in pinyin:      *)
(*   labels     FaXianRenYuan = 发现人员, ShiJian = 时间,                  *)
(*              CheLiangXinXi = 车辆信息, BaoJingMiaoShu = 报警描述,       *)
(*              JieJueBanFa = 解决办法, ZeRenRen = 责任人                  *)
(*   colons     ":" = ASCII colon, "fw:" = full-width colon (U+FF1A)       *)
(*   keywords   ChongDian = 充电, BiZhang = 避障, DingWei = 定位,          *)
(*              RenWu = 任务                                               *)
(*   categories ChongDianShiBai = 充电失败, RenWuZhiXingShiBai =           *)
(*              任务执行失败, BiZhangYiChang = 避障异常, DingWeiDiuShi =   *)
(*              定位丢失, JiXieGuZhang = 机械故障, QiTa = 其他             *)
(*   statuses   DaiXiuFu = 待修复, ChuLiZhong = 处理中, YiXiuFu = 已修复   *)
(***************************************************************************)
EXTENDS Integers, Sequences, FiniteSets, TLC

VARIABLES db, request, response, local

vars == <<db, request, response, local>>

(***************************************************************************)
(* Bounds of the model.                                                    *)
(***************************************************************************)
MaxLines == 3
MaxEdits == 1
MaxStr == 4
MaxRecords == 2
MaxCount == 11
MaxPage == 3

(***************************************************************************)
(* Global constants of app.py.                                             *)
(***************************************************************************)
FAULT_CATEGORIES ==
  <<"ChongDianShiBai", "RenWuZhiXingShiBai", "BiZhangYiChang",
    "DingWeiDiuShi", "JiXieGuZhang", "QiTa">>

FAULT_STATUSES == <<"DaiXiuFu", "ChuLiZhong", "YiXiuFu">>

Range(s) == {s[i] : i \in DOMAIN s}

SetMin(S) == CHOOSE x \in S : \A y \in S : x <= y

SetMax(S) == CHOOSE x \in S : \A y \in S : x >= y

(***************************************************************************)
(* Character classes.                                                      *)
(***************************************************************************)
Labels ==
  {"FaXianRenYuan", "ShiJian", "CheLiangXinXi", "BaoJingMiaoShu",
   "JieJueBanFa", "ZeRenRen"}

Colons == {":", "fw:"}

\* what \s matches and str.strip() removes
Whitespace == {" ", "\n"}

\* tokens outside [一-龥a-zA-Z0-9\s@]: punctuation and mojibake
Symbols == {":", "fw:", "#"}

(***************************************************************************)
(* str.strip(), str.lstrip('@'), str.replace(fw colon, colon), `in`.       *)
(***************************************************************************)
Strip(s) ==
  LET keep == {i \in 1..Len(s) : s[i] \notin Whitespace}
  IN  IF keep = {} THEN <<>> ELSE SubSeq(s, SetMin(keep), SetMax(keep))

LStripAt(s) ==
  LET keep == {i \in 1..Len(s) : s[i] # "@"}
  IN  IF keep = {} THEN <<>> ELSE SubSeq(s, SetMin(keep), Len(s))

ReplaceColon(s) == [i \in 1..Len(s) |-> IF s[i] = "fw:" THEN ":" ELSE s[i]]

Contains(s, tok) == \E i \in 1..Len(s) : s[i] = tok

(***************************************************************************)
(* pattern.findall(raw_text): the list of (label, value) pairs, in text    *)
(* order, of the non-overlapping matches of                                *)
(*   ^(label)[colon]\s*(.+)?  with re.MULTILINE: a label at a line start,  *)
(* a colon, greedy whitespace, then the rest of the line.                  *)
(***************************************************************************)
MatchAt(text, i) ==
  /\ i = 1 \/ text[i - 1] = "\n"
  /\ text[i] \in Labels
  /\ i + 1 <= Len(text)
  /\ text[i + 1] \in Colons

\* greedy \s* from position j: the first position that is not whitespace
SkipWs(text, j) ==
  SetMin({p \in j..(Len(text) + 1) : p = Len(text) + 1 \/ text[p] \notin Whitespace})

\* the value group from position j: up to, not including, the next newline
LineEnd(text, j) ==
  SetMin({p \in j..(Len(text) + 1) : p = Len(text) + 1 \/ text[p] = "\n"})

RECURSIVE Scan(_, _)
Scan(text, i) ==
  IF i > Len(text) THEN <<>>
  ELSE IF MatchAt(text, i)
       THEN LET j == SkipWs(text, i + 2)
                k == LineEnd(text, j)
            IN  <<<<text[i], SubSeq(text, j, k - 1)>>>> \o Scan(text, k)
       ELSE Scan(text, i + 1)

FindAll(text) == Scan(text, 1)

(***************************************************************************)
(* dict(pairs): pairs are stored in order, a later pair with the same key  *)
(* replaces the earlier value.  DictGet is dict.get(key, default).         *)
(***************************************************************************)
DictPut(d, k, v) == [x \in DOMAIN d \cup {k} |-> IF x = k THEN v ELSE d[x]]

\* a dict that keeps the first pair of a key
RECURSIVE DictOfFirst(_)
DictOfFirst(pairs) ==
  IF pairs = <<>> THEN <<>>
  ELSE DictPut(DictOfFirst(Tail(pairs)), pairs[1][1], pairs[1][2])

RECURSIVE DictOf(_)
DictOf(pairs) ==
  IF pairs = <<>> THEN <<>>
  ELSE LET n == Len(pairs)
       IN  DictPut(DictOf(SubSeq(pairs, 1, n - 1)), pairs[n][1], pairs[n][2])

DictGet(d, k, default) == IF k \in DOMAIN d THEN d[k] ELSE default

(***************************************************************************)
(* clean_pattern.sub(' ', s): every maximal run of Symbols becomes one     *)
(* space.                                                                  *)
(***************************************************************************)
CleanSub(s) ==
  LET F[i \in 0..Len(s)] ==
        IF i = 0 THEN <<>>
        ELSE IF s[i] \notin Symbols THEN Append(F[i - 1], s[i])
        ELSE IF i > 1 /\ s[i - 1] \in Symbols THEN F[i - 1]
        ELSE Append(F[i - 1], " ")
  IN  F[Len(s)]

\* lines 56-66: strip, clean, strip, lstrip('@')
SanitizeResponsible(raw) == LStripAt(Strip(CleanSub(Strip(raw))))

(***************************************************************************)
(* datetime.strptime.  A timestamp is [day, sec]: the day of the month and *)
(* the second of the day; None is the failed parse.  The free-text format  *)
(* '%Y年%m月%d日%H:%M' is the three tokens <<date-and-hour, ":", minute>>. *)
(***************************************************************************)
None == [none |-> TRUE]

DateHourTokens == {"2025Y10M29D15", "2025Y10M30D08"}

MinuteTokens == {"53"}

DayOf(tok) == IF tok = "2025Y10M29D15" THEN 29 ELSE 30

HourOf(tok) == IF tok = "2025Y10M29D15" THEN 15 ELSE 8

StrptimeText(s) ==
  IF /\ Len(s) = 3
     /\ s[1] \in DateHourTokens
     /\ s[2] = ":"
     /\ s[3] \in MinuteTokens
  THEN [day |-> DayOf(s[1]), sec |-> HourOf(s[1]) * 3600 + 53 * 60]
  ELSE None

(***************************************************************************)
(* Category inference, lines 78-88.                                        *)
(***************************************************************************)
\* the task rule tried before the charging rule
InferCategoryTaskFirst(desc) ==
  IF Contains(desc, "RenWu") THEN "RenWuZhiXingShiBai"
  ELSE IF Contains(desc, "ChongDian") THEN "ChongDianShiBai"
  ELSE IF Contains(desc, "BiZhang") THEN "BiZhangYiChang"
  ELSE IF Contains(desc, "DingWei") THEN "DingWeiDiuShi"
  ELSE "QiTa"

InferCategory(desc) ==
  IF Contains(desc, "ChongDian") THEN "ChongDianShiBai"
  ELSE IF Contains(desc, "BiZhang") THEN "BiZhangYiChang"
  ELSE IF Contains(desc, "DingWei") THEN "DingWeiDiuShi"
  ELSE IF Contains(desc, "RenWu") THEN "RenWuZhiXingShiBai"
  ELSE "QiTa"

(***************************************************************************)
(* parse_fault_text(raw_text)                                              *)
(***************************************************************************)
parse_fault_text(raw_text) ==
  LET matches == DictOf(FindAll(raw_text))
      description == Strip(DictGet(matches, "BaoJingMiaoShu", <<>>))
      time_str == Strip(DictGet(matches, "ShiJian", <<>>))
  IN  [reporter_name |-> Strip(DictGet(matches, "FaXianRenYuan", <<>>)),
       vehicle_id |-> Strip(DictGet(matches, "CheLiangXinXi", <<>>)),
       description |-> description,
       solution |-> Strip(DictGet(matches, "JieJueBanFa", <<>>)),
       responsible_person |-> SanitizeResponsible(DictGet(matches, "ZeRenRen", <<>>)),
       fault_time |-> StrptimeText(ReplaceColon(time_str)),
       category |-> InferCategory(description)]


(***************************************************************************)
(* The faults table.  db is the sequence of its rows in insertion order.   *)
(* The INSERT statements name seven columns; the table supplies the id,    *)
(* the status (Pending at creation) and the empty resolution log.          *)
(***************************************************************************)
DefaultStatus == "DaiXiuFu"

DefaultResolutionLog == <<>>

NewRow(d, f) ==
  [id |-> Len(d) + 1,
   reporter_name |-> f.reporter_name,
   fault_time |-> f.fault_time,
   vehicle_id |-> f.vehicle_id,
   category |-> f.category,
   status |-> DefaultStatus,
   description |-> f.description,
   solution |-> f.solution,
   resolution_log |-> DefaultResolutionLog,
   responsible_person |-> f.responsible_person]

\* INSERT INTO faults (seven columns) VALUES (?, ?, ?, ?, ?, ?, ?); commit
InsertFault(d, f) == Append(d, NewRow(d, f))

\* the UPDATE without its WHERE clause
UpdateFaultNoWhere(d, status, resolution_log, fault_id) ==
  [i \in 1..Len(d) |->
     [d[i] EXCEPT !.status = status, !.resolution_log = resolution_log]]

\* UPDATE faults SET status = ?, resolution_log = ? WHERE id = ?; commit
UpdateFault(d, status, resolution_log, fault_id) ==
  [i \in 1..Len(d) |->
     IF d[i].id = fault_id
     THEN [d[i] EXCEPT !.status = status, !.resolution_log = resolution_log]
     ELSE d[i]]

(***************************************************************************)
(* Timestamps of the form paths.                                           *)
(*   '%Y-%m-%dT%H:%M' (structured submission) and '%Y-%m-%d' (date         *)
(*   filters); any other string raises ValueError, modelled as None.       *)
(***************************************************************************)
StrptimeForm(s) ==
  IF s = "2025-10-29T15:53" THEN [day |-> 29, sec |-> 15 * 3600 + 53 * 60]
  ELSE IF s = "2025-10-30T08:53" THEN [day |-> 30, sec |-> 8 * 3600 + 53 * 60]
  ELSE None

StrptimeDate(s) ==
  IF s = "2025-10-29" THEN [day |-> 29, sec |-> 0]
  ELSE IF s = "2025-10-30" THEN [day |-> 30, sec |-> 0]
  ELSE None

\* .replace(hour=23, minute=59, second=59)
EndOfDay(t) == [t EXCEPT !.sec = 23 * 3600 + 59 * 60 + 59]

\* the order of stored timestamps (text 'YYYY-MM-DD HH:MM:SS' compares as time)
TimeLe(a, b) == a.day < b.day \/ (a.day = b.day /\ a.sec <= b.sec)

(***************************************************************************)
(* Evaluation of the WHERE text built by index().  A clause other than     *)
(* "1=1" holds one placeholder, bound to the parameter of the same rank.   *)
(***************************************************************************)
IsSubSeq(needle, hay) ==
  \E i \in 0..(Len(hay) - Len(needle)) :
     \A j \in 1..Len(needle) : hay[i + j] = needle[j]

\* value LIKE '%needle%'
Like(value, pattern) == IsSubSeq(SubSeq(pattern, 2, Len(pattern) - 1), value)

EvalClause(row, clause, param) ==
  IF clause = "1=1" THEN TRUE
  ELSE IF clause = "reporter_name LIKE ?" THEN Like(row.reporter_name, param)
  ELSE IF clause = "responsible_person LIKE ?" THEN Like(row.responsible_person, param)
  ELSE IF clause = "vehicle_id LIKE ?" THEN Like(row.vehicle_id, param)
  ELSE IF clause = "status = ?" THEN row.status = param
  ELSE IF clause = "fault_time >= ?" THEN TimeLe(param, row.fault_time)
  ELSE IF clause = "fault_time <= ?" THEN TimeLe(row.fault_time, param)
  ELSE FALSE

\* where_sql = " AND ".join(where_clauses), evaluated on one row
EvalWhere(row, where_clauses, params) ==
  \A c \in 1..Len(where_clauses) :
     EvalClause(row, where_clauses[c], IF c = 1 THEN None ELSE params[c - 1])

SelectWhere(d, where_clauses, params) ==
  SelectSeq(d, LAMBDA row : EvalWhere(row, where_clauses, params))

\* ORDER BY fault_time DESC; rows of equal time are kept in id order
RECURSIVE OrderByTimeDesc(_)
OrderByTimeDesc(rows) ==
  IF rows = <<>> THEN <<>>
  ELSE LET first == CHOOSE i \in 1..Len(rows) :
                      \A j \in 1..Len(rows) :
                         \/ ~TimeLe(rows[i].fault_time, rows[j].fault_time)
                         \/ (rows[i].fault_time = rows[j].fault_time /\ i <= j)
           rest == [k \in 1..(Len(rows) - 1) |->
                      IF k < first THEN rows[k] ELSE rows[k + 1]]
       IN  <<rows[first]>> \o OrderByTimeDesc(rest)

\* LIMIT ? OFFSET ?: a negative OFFSET reads as 0, a negative LIMIT as no limit
LimitOffset(rows, limit, offset) ==
  LET off == IF offset < 0 THEN 0 ELSE offset
      lim == IF limit < 0 THEN Len(rows) ELSE limit
  IN  SubSeq(rows, off + 1, IF off + lim > Len(rows) THEN Len(rows) ELSE off + lim)

\* the count query without its WHERE clause
CountQueryNoWhere(d, where_clauses, params) == Len(d)

\* SELECT COUNT(id) FROM faults WHERE {where_sql}
CountQuery(d, where_clauses, params) == Len(SelectWhere(d, where_clauses, params))

\* SELECT * FROM faults WHERE {where_sql} ORDER BY fault_time DESC
UnpaginatedQuery(d, where_clauses, params) ==
  OrderByTimeDesc(SelectWhere(d, where_clauses, params))

\* ... LIMIT ? OFFSET ? with params + [per_page, offset]
FaultsQuery(d, where_clauses, params, per_page, offset) ==
  LimitOffset(UnpaginatedQuery(d, where_clauses, params), per_page, offset)


(***************************************************************************)
(* State.                                                                  *)
(*   db        the faults table                                            *)
(*   request   the request whose handler ran last (route, method, args or  *)
(*             form)                                                       *)
(*   response  what its handler produced: the redirect and flash message   *)
(*             or the template and its variables, with the handler's       *)
(*             locals the properties speak about                           *)
(*   local     the locals of an index() GET call that has run its count    *)
(*             query and not yet its page query                            *)
(***************************************************************************)
NoRequest == [route |-> "none"]

NoResponse == [route |-> "none"]

Idle == [pc |-> "idle"]

\* request.args.get(name, default, type=int): <<>> is absent or not a number
ArgInt(a, default) == IF a = <<>> THEN default ELSE a[1]

\* .strip() of an enumerated argument (a status, a date)
StripAtom(a) ==
  IF a = " DaiXiuFu " THEN "DaiXiuFu"
  ELSE IF a = " " THEN ""
  ELSE a

(***************************************************************************)
(* index(), POST: the structured submission, lines 100-120.                *)
(***************************************************************************)
IndexPost(form) ==
  LET fault_time == StrptimeForm(form.fault_time)
  IN  /\ request' = [route |-> "/", method |-> "POST", form |-> form]
      /\ IF fault_time = None
         THEN /\ db' = db
              /\ response' = [route |-> "/", status |-> 302, tab |-> "detailed",
                              flash |-> "error"]
         ELSE /\ Len(db) < MaxRecords
              /\ db' = InsertFault(db, [form EXCEPT !.fault_time = fault_time])
              /\ response' = [route |-> "/", status |-> 302, tab |-> "detailed",
                              flash |-> "success"]
      /\ UNCHANGED local

(***************************************************************************)
(* index(), GET, first part, lines 123-171: the search parameters, the     *)
(* WHERE clauses, per_page and page, and the count query.                  *)
(***************************************************************************)
SearchParams(args) ==
  [search_reporter |-> Strip(args.search_reporter),
   search_responsible |-> Strip(args.search_responsible),
   search_vehicle |-> Strip(args.search_vehicle),
   search_status |-> StripAtom(args.search_status),
   search_start_date |-> StripAtom(args.search_start_date),
   search_end_date |-> StripAtom(args.search_end_date)]

WhereClauses(sp) ==
  <<"1=1">>
  \o (IF sp.search_reporter # <<>> THEN <<"reporter_name LIKE ?">> ELSE <<>>)
  \o (IF sp.search_responsible # <<>> THEN <<"responsible_person LIKE ?">> ELSE <<>>)
  \o (IF sp.search_vehicle # <<>> THEN <<"vehicle_id LIKE ?">> ELSE <<>>)
  \o (IF sp.search_status # "" THEN <<"status = ?">> ELSE <<>>)
  \o (IF sp.search_start_date # "" THEN <<"fault_time >= ?">> ELSE <<>>)
  \o (IF sp.search_end_date # "" THEN <<"fault_time <= ?">> ELSE <<>>)

WhereParams(sp) ==
  (IF sp.search_reporter # <<>> THEN <<<<"%">> \o sp.search_reporter \o <<"%">>>> ELSE <<>>)
  \o (IF sp.search_responsible # <<>>
      THEN <<<<"%">> \o sp.search_responsible \o <<"%">>>> ELSE <<>>)
  \o (IF sp.search_vehicle # <<>> THEN <<<<"%">> \o sp.search_vehicle \o <<"%">>>> ELSE <<>>)
  \o (IF sp.search_status # "" THEN <<sp.search_status>> ELSE <<>>)
  \o (IF sp.search_start_date # "" THEN <<StrptimeDate(sp.search_start_date)>> ELSE <<>>)
  \o (IF sp.search_end_date # ""
      THEN <<EndOfDay(StrptimeDate(sp.search_end_date))>> ELSE <<>>)

\* a date filter that strptime rejects: the ValueError is not caught
DateError(sp) ==
  \/ sp.search_start_date # "" /\ StrptimeDate(sp.search_start_date) = None
  \/ sp.search_end_date # "" /\ StrptimeDate(sp.search_end_date) = None

allowed_per_page == {4, 5, 10}

ResolvePerPage(a) ==
  LET per_page == ArgInt(a, 5)
  IN  IF per_page \notin allowed_per_page THEN 5 ELSE per_page

\* the locals of index() once the count query has run; db_at_count is a
\* history value, the table as the count query saw it
CountLocals(args, d) ==
  LET sp == SearchParams(args)
  IN  [pc |-> "counted",
       args |-> args,
       search_params |-> sp,
       where_clauses |-> WhereClauses(sp),
       params |-> WhereParams(sp),
       per_page |-> ResolvePerPage(args.per_page),
       page |-> ArgInt(args.page, 1),
       total_count |-> CountQuery(d, WhereClauses(sp), WhereParams(sp)),
       db_at_count |-> d]

IndexCount(args) ==
  /\ local = Idle
  /\ request' = [route |-> "/", method |-> "GET", args |-> args]
  /\ db' = db
  /\ IF DateError(SearchParams(args))
     THEN /\ response' = [route |-> "/", status |-> 500]
          /\ local' = local
     ELSE /\ response' = response
          /\ local' = CountLocals(args, db)

(***************************************************************************)
(* index(), GET, second part, lines 174-207: the page count, the clamp,    *)
(* the offset, the page query and the template variables.                  *)
(***************************************************************************)
\* math.ceil(total_count / per_page)
TotalPages(total_count, per_page) == (total_count + per_page - 1) \div per_page

ClampPage(page, total_pages) ==
  IF page > total_pages /\ total_pages > 0 THEN total_pages ELSE page

Offset(page, per_page) == (page - 1) * per_page

\* the template variables, with the locals total_count and offset and the
\* number of rows the page query selects before LIMIT and OFFSET
RenderIndex(loc, d) ==
  LET total_pages == TotalPages(loc.total_count, loc.per_page)
      page == ClampPage(loc.page, total_pages)
      offset == Offset(page, loc.per_page)
  IN  [route |-> "/", status |-> 200, template |-> "index.html",
       faults |-> FaultsQuery(d, loc.where_clauses, loc.params, loc.per_page, offset),
       active_tab |-> "quick",
       page |-> page,
       total_pages |-> total_pages,
       per_page |-> loc.per_page,
       search_params |-> loc.search_params,
       total_count |-> loc.total_count,
       offset |-> offset,
       unpaginated |-> Len(UnpaginatedQuery(d, loc.where_clauses, loc.params))]

IndexFetch ==
  /\ local # Idle
  /\ request' = [route |-> "/", method |-> "GET", args |-> local.args]
  /\ response' = RenderIndex(local, db)
  /\ local' = Idle
  /\ db' = db

\* index(), GET, served with no other request in between
IndexGet(args) ==
  /\ local = Idle
  /\ request' = [route |-> "/", method |-> "GET", args |-> args]
  /\ response' = IF DateError(SearchParams(args))
                 THEN [route |-> "/", status |-> 500]
                 ELSE RenderIndex(CountLocals(args, db), db)
  /\ UNCHANGED <<db, local>>

(***************************************************************************)
(* parse_fault(), lines 212-243.                                           *)
(***************************************************************************)
\* the required fields without the responsible person
AllRequiredButResponsible(parsed_data) ==
  /\ parsed_data.reporter_name # <<>>
  /\ parsed_data.fault_time # None
  /\ parsed_data.vehicle_id # <<>>
  /\ parsed_data.description # <<>>

\* all(parsed_data.get(field) ...): no field is the empty string or None
AllRequired(parsed_data) ==
  /\ parsed_data.reporter_name # <<>>
  /\ parsed_data.fault_time # None
  /\ parsed_data.vehicle_id # <<>>
  /\ parsed_data.description # <<>>
  /\ parsed_data.responsible_person # <<>>

ParseFault(raw_text) ==
  LET parsed_data == parse_fault_text(raw_text)
  IN  /\ request' = [route |-> "/parse", method |-> "POST", raw_text |-> raw_text]
      /\ IF ~AllRequired(parsed_data)
         THEN /\ db' = db
              /\ response' = [route |-> "/parse", status |-> 302, tab |-> "quick",
                              flash |-> "error", parsed_data |-> parsed_data]
         ELSE /\ Len(db) < MaxRecords
              /\ db' = InsertFault(db, parsed_data)
              /\ response' = [route |-> "/parse", status |-> 302, tab |-> "quick",
                              flash |-> "success", parsed_data |-> parsed_data]
      /\ UNCHANGED local

(***************************************************************************)
(* edit_fault(fault_id), lines 249-260.                                    *)
(***************************************************************************)
EditFaultPost(fault_id, status, resolution_log) ==
  /\ request' = [route |-> "/edit", method |-> "POST", fault_id |-> fault_id,
                 form |-> [status |-> status, resolution_log |-> resolution_log]]
  /\ db' = UpdateFault(db, status, resolution_log, fault_id)
  /\ response' = [route |-> "/edit", status |-> 302, flash |-> "success"]
  /\ UNCHANGED local

EditFaultGet(fault_id) ==
  LET found == SelectSeq(db, LAMBDA row : row.id = fault_id)
  IN  /\ request' = [route |-> "/edit", method |-> "GET", fault_id |-> fault_id]
      /\ response' = IF found = <<>>
                     THEN [route |-> "/edit", status |-> 404]
                     ELSE [route |-> "/edit", status |-> 200, template |-> "edit.html",
                           fault |-> found[1], statuses |-> FAULT_STATUSES]
      /\ UNCHANGED <<db, local>>


(***************************************************************************)
(* statistics(), lines 263-324.  The query text is the sequence of its     *)
(* pieces; the pieces at ranks 2 and, for a column, 5 are the ones the     *)
(* f-strings interpolate.  stats is the set of (group_key, count) rows:    *)
(* the order of rows of equal rank is not modelled.                        *)
(***************************************************************************)
allowed_group_by_columns ==
  {"category", "status", "vehicle_id", "reporter_name", "responsible_person", "by_date"}

\* request.args.get('group_by', 'category'): <<>> is absent
ArgStr(a, default) == IF a = <<>> THEN default ELSE a[1]

\* the dimension used as requested, with no whitelist
ResolveGroupByUnchecked(raw) == raw

ResolveGroupBy(raw) ==
  IF raw \notin allowed_group_by_columns THEN "category" ELSE raw

GroupByClause(group_by) ==
  IF group_by = "by_date" THEN "DATE(fault_time)" ELSE group_by

StatsQuery(group_by, start_date_str, end_date_str) ==
  <<"SELECT ", GroupByClause(group_by),
    " as group_key, COUNT(*) as count FROM faults WHERE 1=1">>
  \o (IF start_date_str # "" THEN <<" AND fault_time >= ?">> ELSE <<>>)
  \o (IF end_date_str # "" THEN <<" AND fault_time <= ?">> ELSE <<>>)
  \o (IF group_by = "by_date"
      THEN <<" GROUP BY group_key ORDER BY group_key ASC">>
      ELSE <<" GROUP BY ", group_by, " ORDER BY count DESC">>)

InDateRange(row, start_date_str, end_date_str) ==
  /\ start_date_str # "" => TimeLe(StrptimeDate(start_date_str), row.fault_time)
  /\ end_date_str # "" => TimeLe(row.fault_time, EndOfDay(StrptimeDate(end_date_str)))

GroupKey(row, group_by) ==
  IF group_by = "by_date" THEN <<row.fault_time.day>> ELSE <<row[group_by]>>

StatsRows(d, group_by, start_date_str, end_date_str) ==
  LET rows == SelectSeq(d, LAMBDA row : InDateRange(row, start_date_str, end_date_str))
      keys == {GroupKey(rows[i], group_by) : i \in 1..Len(rows)}
  IN  {[group_key |-> k,
        count |-> Cardinality({i \in 1..Len(rows) : GroupKey(rows[i], group_by) = k})] :
       k \in keys}

StatsDateError(start_date_str, end_date_str) ==
  \/ start_date_str # "" /\ StrptimeDate(start_date_str) = None
  \/ end_date_str # "" /\ StrptimeDate(end_date_str) = None

Statistics(args) ==
  LET raw == ArgStr(args.group_by, "category")
      group_by == ResolveGroupBy(raw)
  IN  /\ request' = [route |-> "/statistics", method |-> "GET", args |-> args]
      /\ response' =
           IF StatsDateError(args.start_date, args.end_date)
           THEN [route |-> "/statistics", status |-> 500,
                 flash |-> IF raw \notin allowed_group_by_columns
                           THEN "warning" ELSE "none"]
           ELSE [route |-> "/statistics", status |-> 200,
                 template |-> "statistics.html",
                 flash |-> IF raw \notin allowed_group_by_columns
                           THEN "warning" ELSE "none",
                 current_group_by |-> group_by,
                 query |-> StatsQuery(group_by, args.start_date, args.end_date),
                 stats |-> StatsRows(db, group_by, args.start_date, args.end_date),
                 start_date |-> args.start_date,
                 end_date |-> args.end_date]
      /\ UNCHANGED <<db, local>>

(***************************************************************************)
(* download(), lines 328-349: the header row, then one row per record in   *)
(* the date range, newest first.                                           *)
(***************************************************************************)
CsvHeader ==
  <<"ID", "FaXianRenYuan", "GuZhangShiJian", "CheLiangXinXi", "CuoWuLeiBie",
    "JieJueZhuangTai", "BaoJingMiaoShu", "JieJueBanFa", "ChuLiJiLu", "ZeRenRen">>

CsvRow(row) ==
  <<row.id, row.reporter_name, row.fault_time, row.vehicle_id, row.category,
    row.status, row.description, row.solution, row.resolution_log,
    row.responsible_person>>

Download(args) ==
  LET rows == OrderByTimeDesc(
                SelectSeq(db, LAMBDA row : InDateRange(row, args.start_date, args.end_date)))
  IN  /\ request' = [route |-> "/download", method |-> "GET", args |-> args]
      /\ response' =
           IF StatsDateError(args.start_date, args.end_date)
           THEN [route |-> "/download", status |-> 500]
           ELSE [route |-> "/download", status |-> 200, mimetype |-> "text/csv",
                 header |-> CsvHeader,
                 rows |-> [i \in 1..Len(rows) |-> CsvRow(rows[i])]]
      /\ UNCHANGED <<db, local>>


(***************************************************************************)
(* Report texts.  A text is its lines joined by newlines.                  *)
(***************************************************************************)
RECURSIVE JoinLines(_)
JoinLines(lines) ==
  IF lines = <<>> THEN <<>>
  ELSE IF Len(lines) = 1 THEN lines[1]
  ELSE lines[1] \o <<"\n">> \o JoinLines(Tail(lines))

\* a complete report, as the chat tool exports it
CanonicalLines ==
  <<<<"FaXianRenYuan", "fw:", "ZhangSan">>,
    <<"ShiJian", "fw:", "2025Y10M29D15", "fw:", "53">>,
    <<"CheLiangXinXi", "fw:", "AGV", "01">>,
    <<"BaoJingMiaoShu", "fw:", "RenWu", "ChongDian">>,
    <<"JieJueBanFa", "fw:", "restart">>,
    <<"ZeRenRen", "fw:", "#", "@", "WangWu", "#">>>>

\* lines a report may also hold
LineForms ==
  {<<"FaXianRenYuan", ":", "LiSi", " ">>,
   <<"FaXianRenYuan", ":">>,
   <<" ", "FaXianRenYuan", ":", "LiSi">>,
   <<"ShiJian", ":", " ", "2025Y10M30D08", ":", "53">>,
   <<"ShiJian", ":", "tomorrow">>,
   <<"CheLiangXinXi", ":", "AGV", "02">>,
   <<"BaoJingMiaoShu", "fw:", " ">>,
   <<"BaoJingMiaoShu", ":", "DingWei">>,
   <<"ZeRenRen", ":", "@", " ", "ZhaoLiu">>,
   <<"ZeRenRen", ":", "#">>,
   <<"hello">>}

RECURSIVE SeqsUpTo(_, _)
SeqsUpTo(S, n) ==
  IF n = 0 THEN {<<>>}
  ELSE LET shorter == SeqsUpTo(S, n - 1)
       IN  shorter \cup {Append(q, x) : q \in {r \in shorter : Len(r) = n - 1}, x \in S}

\* one edit of a list of lines: a line dropped, replaced or inserted
EditsOf(lines) ==
  {[k \in 1..(Len(lines) - 1) |-> IF k < i THEN lines[k] ELSE lines[k + 1]] :
     i \in 1..Len(lines)}
  \cup {[lines EXCEPT ![i] = f] : i \in 1..Len(lines), f \in LineForms}
  \cup {[k \in 1..(Len(lines) + 1) |->
           IF k < i THEN lines[k] ELSE IF k = i THEN f ELSE lines[k - 1]] :
        i \in 1..(Len(lines) + 1), f \in LineForms}

RECURSIVE EditedUpTo(_, _)
EditedUpTo(lines, n) ==
  IF n = 0 THEN {lines}
  ELSE LET less == EditedUpTo(lines, n - 1)
       IN  less \cup UNION {EditsOf(l) : l \in less}

DescriptionTokens == {"ChongDian", "BiZhang", "DingWei", "RenWu", "x"}

IdentityTokens == {"WangWu", " ", "@", "#"}

\* the texts of the parser's specification: short texts of any lines, the
\* complete report with a few edits, and reports of one description line
RawTexts ==
  {JoinLines(l) : l \in SeqsUpTo(LineForms, MaxLines)}
  \cup {JoinLines(l) : l \in EditedUpTo(CanonicalLines, MaxEdits)}
  \cup {<<"BaoJingMiaoShu", ":">> \o d : d \in SeqsUpTo(DescriptionTokens, MaxStr)}

(***************************************************************************)
(* Tables the specifications start from: n rows, as n structured           *)
(* submissions leave them.                                                 *)
(***************************************************************************)
SeedForm(i) ==
  IF i % 2 = 1
  THEN [reporter_name |-> <<"ZhangSan">>, fault_time |-> "2025-10-29T15:53",
        vehicle_id |-> <<"AGV", "01">>, category |-> "JiXieGuZhang",
        description |-> <<"x">>, solution |-> <<>>,
        responsible_person |-> <<"WangWu">>]
  ELSE [reporter_name |-> <<"LiSi">>, fault_time |-> "2025-10-30T08:53",
        vehicle_id |-> <<"AGV", "02">>, category |-> "QiTa",
        description |-> <<"x">>, solution |-> <<"restart">>,
        responsible_person |-> <<>>]

RECURSIVE SeedDb(_)
SeedDb(n) ==
  IF n = 0 THEN <<>>
  ELSE InsertFault(SeedDb(n - 1),
                   [SeedForm(n) EXCEPT !.fault_time = StrptimeForm(SeedForm(n).fault_time)])


(***************************************************************************)
(* Spec: the application serving one request at a time.                    *)
(***************************************************************************)
Forms ==
  {SeedForm(i) : i \in 1..2}
  \cup {[SeedForm(1) EXCEPT !.fault_time = "29/10/2025 15:53"]}

Texts ==
  {JoinLines(CanonicalLines),
   JoinLines(SubSeq(CanonicalLines, 1, 5))}

EditStatuses == Range(FAULT_STATUSES) \cup {"bogus"}

NoFilter ==
  [search_reporter |-> <<>>, search_responsible |-> <<>>, search_vehicle |-> <<>>,
   search_status |-> "", search_start_date |-> "", search_end_date |-> "",
   per_page |-> <<>>, page |-> <<>>]

Init ==
  /\ db = <<>>
  /\ request = NoRequest
  /\ response = NoResponse
  /\ local = Idle

Next ==
  \/ \E form \in Forms : IndexPost(form)
  \/ \E st \in {"", "DaiXiuFu"} : IndexGet([NoFilter EXCEPT !.search_status = st])
  \/ \E t \in Texts : ParseFault(t)
  \/ \E id \in 1..(MaxRecords + 1), st \in EditStatuses :
        EditFaultPost(id, st, <<"done">>)
  \/ \E id \in 1..(MaxRecords + 1) : EditFaultGet(id)
  \/ \E g \in {<<"status">>, <<"dropTable">>} :
        Statistics([group_by |-> g, start_date |-> "", end_date |-> ""])
  \/ Download([start_date |-> "", end_date |-> "2025-10-29"])

Spec == Init /\ [][Next]_vars

(***************************************************************************)
(* SpecParse: one free-text submission of any text of RawTexts, on an      *)
(* empty table or a table of one row.                                      *)
(***************************************************************************)
InitParse ==
  /\ db \in {SeedDb(0), SeedDb(1)}
  /\ request \in {[route |-> "/parse", method |-> "POST", raw_text |-> t] : t \in RawTexts}
  /\ response = NoResponse
  /\ local = Idle

NextParse == response = NoResponse /\ ParseFault(request.raw_text)

SpecParse == InitParse /\ [][NextParse]_vars

(***************************************************************************)
(* SpecSanitize: the identity sanitization applied to a raw value, then    *)
(* to its own result.                                                      *)
(***************************************************************************)
InitSanitize ==
  /\ db = <<>>
  /\ request \in {[route |-> "sanitize", responsible_person_raw |-> s] :
                    s \in SeqsUpTo(IdentityTokens, MaxStr)}
  /\ response = NoResponse
  /\ local = Idle

SanitizeOnce ==
  /\ response = NoResponse
  /\ response' = [route |-> "sanitize", passes |-> 1,
                  responsible_person |-> SanitizeResponsible(request.responsible_person_raw)]
  /\ UNCHANGED <<db, request, local>>

SanitizeAgain ==
  /\ response # NoResponse
  /\ response.passes = 1
  /\ response' = [route |-> "sanitize", passes |-> 2,
                  first |-> response.responsible_person,
                  responsible_person |-> SanitizeResponsible(response.responsible_person)]
  /\ UNCHANGED <<db, request, local>>

NextSanitize == SanitizeOnce \/ SanitizeAgain

SpecSanitize == InitSanitize /\ [][NextSanitize]_vars

(***************************************************************************)
(* SpecPage: list views of tables of 0 to MaxCount rows, for any page and  *)
(* page size a request can carry.                                          *)
(***************************************************************************)
PageArgs == {<<>>} \cup {<<p>> : p \in (-1..MaxPage) \cup {99}}

PerPageArgs == {<<>>} \cup {<<n>> : n \in {-4, 0, 3, 4, 5, 10, 50}}

InitPage ==
  /\ db \in {SeedDb(n) : n \in 0..MaxCount}
  /\ request = NoRequest
  /\ response = NoResponse
  /\ local = Idle

NextPage ==
  \E p \in PageArgs, n \in PerPageArgs :
     IndexGet([NoFilter EXCEPT !.page = p, !.per_page = n])

SpecPage == InitPage /\ [][NextPage]_vars

(***************************************************************************)
(* SpecSearch: one list view with any combination of the six criteria,     *)
(* while other requests insert and edit rows between its count query and   *)
(* its page query.                                                         *)
(***************************************************************************)
SearchArgs ==
  {[NoFilter EXCEPT !.search_reporter = a, !.search_responsible = b,
                    !.search_vehicle = c, !.search_status = d,
                    !.search_start_date = e, !.search_end_date = f] :
     a \in {<<>>, <<"ZhangSan", " ">>}, b \in {<<>>, <<"WangWu">>},
     c \in {<<>>, <<"01">>}, d \in {"", " DaiXiuFu ", "YiXiuFu"},
     e \in {"", "2025-10-30"}, f \in {"", "2025-10-29", "29/10/2025"}}

InitSearch ==
  /\ db \in {SeedDb(n) : n \in 0..MaxRecords}
            \cup {UpdateFault(SeedDb(MaxRecords), "YiXiuFu", <<"done">>, 1)}
  /\ request = NoRequest
  /\ response = NoResponse
  /\ local = Idle

NextSearch ==
  \/ request = NoRequest /\ \E args \in SearchArgs : IndexCount(args)
  \/ IndexFetch
  \/ local # Idle /\ IndexPost([SeedForm(1) EXCEPT !.fault_time = "2025-10-30T08:53"])
  \/ local # Idle /\ ParseFault(JoinLines(CanonicalLines))
  \/ local # Idle /\ \E id \in 1..MaxRecords, st \in {"DaiXiuFu", "YiXiuFu"} :
                        EditFaultPost(id, st, <<"done">>)

SpecSearch == InitSearch /\ [][NextSearch]_vars

(***************************************************************************)
(* SpecStats: statistics requests with any dimension string.               *)
(***************************************************************************)
GroupByArgs ==
  {<<>>} \cup {<<g>> : g \in allowed_group_by_columns
                           \cup {"dropTable", "id", "BY_DATE",
                                 "category; DROP TABLE faults"}}

DateArgs == {"", "2025-10-29", "2025-10-30", "yesterday"}

InitStats ==
  /\ db \in {SeedDb(n) : n \in 0..MaxRecords}
  /\ request = NoRequest
  /\ response = NoResponse
  /\ local = Idle

NextStats ==
  \E g \in GroupByArgs, sd \in DateArgs, e \in DateArgs :
     Statistics([group_by |-> g, start_date |-> sd, end_date |-> e])

SpecStats == InitStats /\ [][NextStats]_vars


(***************************************************************************)
(* Properties.                                                             *)
(***************************************************************************)
IndexRendered == response.route = "/" /\ response.status = 200

\* the least n with n * pageSize >= totalCount
PagesFor(totalCount, pageSize) ==
  SetMin({n \in 0..totalCount : n * pageSize >= totalCount})

\* C1: in the list view the resolved page number lies in
\* [1, max(totalPages, 1)], totalPages = ceil(totalCount / pageSize), for
\* every row count, page size and requested page number.
C1_PageInRange ==
  IndexRendered =>
    LET totalPages == PagesFor(response.total_count, response.per_page)
    IN  /\ response.page >= 1
        /\ response.page <= (IF totalPages > 1 THEN totalPages ELSE 1)

\* C2: the offset passed to the page query, (resolved page - 1) * resolved
\* page size, is never negative, and the page size passed is one of 4, 5, 10,
\* whatever page and page size the request supplies.
C2_OffsetNonNegative ==
  IndexRendered =>
    /\ response.offset = (response.page - 1) * response.per_page
    /\ response.offset >= 0
    /\ response.per_page \in {4, 5, 10}

RECURSIVE SplitLines(_)
SplitLines(text) ==
  LET k == LineEnd(text, 1)
  IN  IF k > Len(text) THEN <<text>>
      ELSE <<SubSeq(text, 1, k - 1)>> \o SplitLines(SubSeq(text, k + 1, Len(text)))

\* the text has a line of the form label, colon, value
HasLine(text, label) ==
  \E line \in Range(SplitLines(text)) :
     Len(line) >= 2 /\ line[1] = label /\ line[2] \in Colons

RequiredLabels == {"FaXianRenYuan", "ShiJian", "CheLiangXinXi", "BaoJingMiaoShu", "ZeRenRen"}

MissingRequired(text) == \E label \in RequiredLabels : ~HasLine(text, label)

\* C3: when a required label has no line in the raw text, or the time value
\* does not resolve to a timestamp, parse_fault reports failure and the
\* table is the same after the request as before it.
C3_IncompletePersistsNothing ==
  [][(/\ response'.route = "/parse"
      /\ \/ MissingRequired(request'.raw_text)
         \/ response'.parsed_data.fault_time = None)
     => (response'.flash = "error" /\ db' = db)]_vars

C3_Witness ==
  /\ response.route = "/parse"
  /\ ~HasLine(request.raw_text, "ZeRenRen")
  /\ \A label \in RequiredLabels \ {"ZeRenRen"} : HasLine(request.raw_text, label)
  /\ response.parsed_data.fault_time # None
  /\ response.parsed_data.reporter_name # <<>>
  /\ response.flash = "error"
  /\ db = SeedDb(1)

\* C4: the identity sanitization is idempotent: sanitizing its own output
\* gives the same string, for every input.
C4_SanitizeIdempotent ==
  (response.route = "sanitize" /\ response.passes = 2)
    => response.responsible_person = response.first

\* the six criteria, as the data model states them: three substrings, the
\* exact status, the first and the last calendar day, each only when given
MatchesCriteria(row, sp) ==
  /\ sp.search_reporter # <<>> => IsSubSeq(sp.search_reporter, row.reporter_name)
  /\ sp.search_responsible # <<>> => IsSubSeq(sp.search_responsible, row.responsible_person)
  /\ sp.search_vehicle # <<>> => IsSubSeq(sp.search_vehicle, row.vehicle_id)
  /\ sp.search_status # "" => row.status = sp.search_status
  /\ sp.search_start_date # "" => row.fault_time.day >= StrptimeDate(sp.search_start_date).day
  /\ sp.search_end_date # "" => row.fault_time.day <= StrptimeDate(sp.search_end_date).day

CriteriaCount(d, sp) == Cardinality({i \in 1..Len(d) : MatchesCriteria(d[i], sp)})

\* C5 as stated: in every search request, also while other requests insert
\* or edit rows, the total count equals the number of rows that match the
\* same criteria when the page rows are fetched.
C5_CountEqualsFetched ==
  [][(local # Idle /\ local' = Idle)
     => /\ response'.total_count = response'.unpaginated
        /\ response'.total_count = CriteriaCount(db, local.search_params)]_vars

\* C5 as amended: the same, when the table at the page query is the table
\* the count query saw (no insert or edit committed in between).
C5_CountEqualsFetchedUndisturbed ==
  [][(local # Idle /\ local' = Idle /\ local.db_at_count = db)
     => /\ response'.total_count = response'.unpaginated
        /\ response'.total_count = CriteriaCount(db, local.search_params)]_vars

C5_Witness ==
  /\ IndexRendered
  /\ local = Idle
  /\ response.search_params.search_reporter = <<"ZhangSan">>
  /\ response.search_params.search_status = "DaiXiuFu"
  /\ response.search_params.search_end_date = "2025-10-29"
  /\ Len(db) = 2
  /\ response.total_count = 1
  /\ response.unpaginated = 1
  /\ Len(response.faults) = 1
  /\ CriteriaCount(db, response.search_params) = 1

GroupByFragments ==
  {"category", "status", "vehicle_id", "reporter_name", "responsible_person",
   "DATE(fault_time)"}

\* C6: a dimension string outside the closed set resolves to category with
\* an advisory, and the group-by expression in the query text is always one
\* of the six fixed fragments, the one of the resolved dimension, never the
\* raw input.
C6_GroupByWhitelist ==
  response.route = "/statistics" =>
    LET a == request.args.group_by
        closed == {"category", "status", "vehicle_id", "reporter_name",
                   "responsible_person", "by_date"}
    IN  /\ (a # <<>> /\ a[1] \notin closed) => response.flash = "warning"
        /\ response.status = 200 =>
             /\ (a # <<>> /\ a[1] \notin closed) => response.current_group_by = "category"
             /\ (a # <<>> /\ a[1] \in closed) => response.current_group_by = a[1]
             /\ response.current_group_by \in closed
             /\ response.query[2] \in GroupByFragments
             /\ response.query[2] = (IF response.current_group_by = "by_date"
                                     THEN "DATE(fault_time)"
                                     ELSE response.current_group_by)
             /\ LET n == Len(response.query)
                IN  IF response.current_group_by = "by_date"
                    THEN response.query[n] = " GROUP BY group_key ORDER BY group_key ASC"
                    ELSE /\ response.query[n - 2] = " GROUP BY "
                         /\ response.query[n - 1] = response.current_group_by
                         /\ response.query[n - 1] \in GroupByFragments

C6_Witness ==
  /\ response.route = "/statistics"
  /\ request.args.group_by = <<"dropTable">>
  /\ response.status = 200
  /\ response.flash = "warning"
  /\ response.current_group_by = "category"
  /\ response.query[2] = "category"
  /\ Len(db) = 2

\* C7: after any sequence of submissions and edits every persisted record
\* has one of the three statuses.
C7_StatusInSet == \A i \in 1..Len(db) : db[i].status \in Range(FAULT_STATUSES)

Immutable(row) ==
  <<row.id, row.reporter_name, row.fault_time, row.vehicle_id, row.category,
    row.description, row.solution, row.responsible_person>>

\* C8: a record, once created, keeps its id, reporter name, fault time,
\* vehicle id, category, description, solution and responsible person; an
\* edit of record X changes only the status and resolution log of X; no
\* record is ever removed.
C8_Frame ==
  [][\A i \in 1..Len(db) :
       \E j \in 1..Len(db') :
          /\ db'[j].id = db[i].id
          /\ Immutable(db'[j]) = Immutable(db[i])
          /\ (db'[j] # db[i]) =>
                /\ request'.route = "/edit"
                /\ request'.method = "POST"
                /\ request'.fault_id = db[i].id]_vars

C8_Witness ==
  /\ request.route = "/edit"
  /\ request.method = "POST"
  /\ request.fault_id = 1
  /\ Len(db) = 2
  /\ db[1].status = "YiXiuFu"
  /\ db[1].resolution_log = <<"done">>
  /\ db[2].status = "DaiXiuFu"
  /\ db[2].resolution_log = <<>>
  /\ Immutable(db[1]) = Immutable(SeedDb(2)[1])

\* what parse_fault_text returns for a label, given the value the extractor
\* holds for it
FieldOf(parsed_data, label) ==
  IF label = "FaXianRenYuan" THEN parsed_data.reporter_name
  ELSE IF label = "CheLiangXinXi" THEN parsed_data.vehicle_id
  ELSE IF label = "BaoJingMiaoShu" THEN parsed_data.description
  ELSE IF label = "JieJueBanFa" THEN parsed_data.solution
  ELSE IF label = "ZeRenRen" THEN parsed_data.responsible_person
  ELSE parsed_data.fault_time

Normalized(label, value) ==
  IF label = "ZeRenRen" THEN SanitizeResponsible(value)
  ELSE IF label = "ShiJian" THEN StrptimeText(ReplaceColon(Strip(value)))
  ELSE Strip(value)

\* the ranks, in the list of matches, of the matches of a label
MatchesOf(pairs, label) == {i \in 1..Len(pairs) : pairs[i][1] = label}

\* C9 as stated: when a label is matched on more than one line, the value
\* returned for it is the value of its first occurrence.
C9_FirstOccurrenceWins ==
  response.route = "/parse" =>
    LET pairs == FindAll(request.raw_text)
    IN  \A label \in Labels :
           LET idx == MatchesOf(pairs, label)
           IN  Cardinality(idx) >= 2 =>
                 FieldOf(response.parsed_data, label)
                   = Normalized(label, pairs[SetMin(idx)][2])

\* C9 as amended: when a label is matched on more than one line, the value
\* returned for it is the value of its last match.
C9_LastOccurrenceWins ==
  response.route = "/parse" =>
    LET pairs == FindAll(request.raw_text)
    IN  \A label \in Labels :
           LET idx == MatchesOf(pairs, label)
           IN  Cardinality(idx) >= 2 =>
                 FieldOf(response.parsed_data, label)
                   = Normalized(label, pairs[SetMax(idx)][2])

C9_Witness ==
  /\ response.route = "/parse"
  /\ LET pairs == FindAll(request.raw_text)
         idx == MatchesOf(pairs, "FaXianRenYuan")
     IN  /\ Cardinality(idx) = 2
         /\ Strip(pairs[SetMin(idx)][2]) = <<"LiSi">>
         /\ Strip(pairs[SetMax(idx)][2]) = <<"ZhangSan">>
  /\ response.parsed_data.reporter_name = <<"ZhangSan">>
  /\ response.flash = "success"

\* C10: category inference assigns exactly one category to every
\* description, by the first matching rule in the order charging, obstacle
\* avoidance, localization, task, otherwise Other.
C10_CategoryPriority ==
  response.route = "/parse" =>
    LET d == response.parsed_data.description
        c == response.parsed_data.category
        has(k) == \E i \in 1..Len(d) : d[i] = k
    IN  /\ c \in Range(FAULT_CATEGORIES)
        /\ has("ChongDian") => c = "ChongDianShiBai"
        /\ (~has("ChongDian") /\ has("BiZhang")) => c = "BiZhangYiChang"
        /\ (~has("ChongDian") /\ ~has("BiZhang") /\ has("DingWei")) => c = "DingWeiDiuShi"
        /\ (~has("ChongDian") /\ ~has("BiZhang") /\ ~has("DingWei") /\ has("RenWu"))
              => c = "RenWuZhiXingShiBai"
        /\ (~has("ChongDian") /\ ~has("BiZhang") /\ ~has("DingWei") /\ ~has("RenWu"))
              => c = "QiTa"

C10_Witness ==
  /\ response.route = "/parse"
  /\ response.parsed_data.description = <<"RenWu", "ChongDian">>
  /\ response.parsed_data.category = "ChongDianShiBai"

====
